---- MODULE Spec2Model ----
(***************************************************************************)
(* A model of the sassy-fire facade: the auth functions (setupFirebase,    *)
(* login/logout/register, sendMail, setCredentials, deleteUser,            *)
(* observeUser, decodeFireError) and the channel/message functions         *)
(* (addUserToGlobalChannel, getUserChannels, getChannelMessages,           *)
(* sendMessageToChannel, subscribeUserToChannel, unsubscribeFromChannel).  *)
(*                                                                         *)
(* A facade call is a record of `calls`; its synchronous part is one       *)
(* action, and each settlement of a backend promise, together with the     *)
(* then/catch reactions that the settlement runs, is one action.           *)
(***************************************************************************)
EXTENDS Integers, Sequences, FiniteSets, TLC

\* ------------------------------------------------------------------ bounds

\* Facade calls made in one behaviour of Spec (they may overlap).
MaxCalls == 1
\* addUserToGlobalChannel calls made in one behaviour of SpecJoin (they may overlap).
MaxJoins == 2
\* subscribeUserToChannel calls made in one behaviour.
MaxSubs == 2
\* unsubscribeFromChannel calls made in one behaviour.
MaxUnsubs == 2
\* Messages other clients add to the channel in one behaviour.
MaxMsgs == 2

\* ------------------------------------------------------------------ values

\* JavaScript's undefined, for a string-valued slot.
UNDEF == "<undefined>"

\* !x for a string-valued slot: undefined and the empty string are falsy.
Falsy(x) == x \in {UNDEF, ""}

\* strings.DEFAULT_ERROR_MESSAGE of @sassy-js/utils, strings.DEFAULT_ERROR of ./strings.
DEFAULT_ERROR_MESSAGE == "DEFAULT_ERROR_MESSAGE"
DEFAULT_ERROR == "DEFAULT_ERROR"

\* The error values a facade function can be handed: null, undefined, or an
\* object whose code and message may each be absent or empty.
NullError == [kind |-> "null", code |-> UNDEF, message |-> UNDEF]
UndefinedError == [kind |-> "undefined", code |-> UNDEF, message |-> UNDEF]
ErrorObject(c, m) == [kind |-> "object", code |-> c, message |-> m]

ListedCodes ==
  { "auth/invalid-email", "auth/user-disabled", "auth/user-not-found",
    "auth/wrong-password", "auth/email-already-in-use", "auth/popup-blocked" }

UnlistedCodes == { "auth/too-many-requests", "permission-denied" }

CodeValues == ListedCodes \cup UnlistedCodes \cup {UNDEF, ""}
MessageValues == { UNDEF, "", "Firebase: Error." }

ErrorValues ==
  { NullError, UndefinedError } \cup
  { ErrorObject(c, m) : c \in CodeValues, m \in MessageValues }

HttpServiceError(e, m) == [error |-> e, message |-> m]

\* ------------------------------------------------------------------ decodeFireError

\* A decoder whose switch lost the "auth/wrong-password" case.
decodeFireError_lostCase(error) ==
  IF error.kind # "object" \/ Falsy(error.code) \/ Falsy(error.message)
  THEN HttpServiceError("unknown", DEFAULT_ERROR_MESSAGE)
  ELSE CASE error.code = "auth/invalid-email" ->
              HttpServiceError(error.code, "Invalid email address.")
         [] error.code = "auth/user-disabled" ->
              HttpServiceError(error.code, "This user has been disabled.")
         [] error.code = "auth/user-not-found" ->
              HttpServiceError(error.code, "This user does not exist.")
         [] error.code = "auth/email-already-in-use" ->
              HttpServiceError(error.code, "This email is already in use.")
         [] error.code = "auth/popup-blocked" ->
              HttpServiceError(error.code, "Please allow popups to continue.")
         [] OTHER -> HttpServiceError(error.code, DEFAULT_ERROR_MESSAGE)

\* A decoder whose default case reports "unknown" instead of the code.
decodeFireError_unknownDefault(error) ==
  IF error.kind # "object" \/ Falsy(error.code) \/ Falsy(error.message)
  THEN HttpServiceError("unknown", DEFAULT_ERROR_MESSAGE)
  ELSE IF error.code \in ListedCodes
  THEN HttpServiceError(error.code, "Invalid email address.")
  ELSE HttpServiceError("unknown", DEFAULT_ERROR_MESSAGE)

\* The decoder of the library's entry point.
decodeFireError(error) ==
  IF error.kind # "object"                                \* if (!error)
  THEN HttpServiceError("unknown", DEFAULT_ERROR_MESSAGE)
  ELSE IF Falsy(error.code) \/ Falsy(error.message)       \* if (!code || !message)
  THEN HttpServiceError("unknown", DEFAULT_ERROR_MESSAGE)
  ELSE CASE error.code = "auth/invalid-email" ->
              HttpServiceError(error.code, "Invalid email address.")
         [] error.code = "auth/user-disabled" ->
              HttpServiceError(error.code, "This user has been disabled.")
         [] error.code = "auth/user-not-found" ->
              HttpServiceError(error.code, "This user does not exist.")
         [] error.code = "auth/wrong-password" ->
              HttpServiceError(error.code, "Incorrect password.")
         [] error.code = "auth/email-already-in-use" ->
              HttpServiceError(error.code, "This email is already in use.")
         [] error.code = "auth/popup-blocked" ->
              HttpServiceError(error.code, "Please allow popups to continue.")
         [] OTHER -> HttpServiceError(error.code, DEFAULT_ERROR_MESSAGE)

\* The decoder of src/firebase.ts, whose switch has four cases.
decodeFireError_firebase(error) ==
  IF error.kind # "object"
  THEN HttpServiceError("unknown", DEFAULT_ERROR_MESSAGE)
  ELSE IF Falsy(error.code) \/ Falsy(error.message)
  THEN HttpServiceError("unknown", DEFAULT_ERROR_MESSAGE)
  ELSE CASE error.code = "auth/invalid-email" ->
              HttpServiceError(error.code, "Invalid email address.")
         [] error.code = "auth/user-disabled" ->
              HttpServiceError(error.code, "This user has been disabled.")
         [] error.code = "auth/user-not-found" ->
              HttpServiceError(error.code, "This user does not exist.")
         [] error.code = "auth/wrong-password" ->
              HttpServiceError(error.code, "Incorrect password.")
         [] OTHER -> HttpServiceError(error.code, DEFAULT_ERROR_MESSAGE)

\* ------------------------------------------------------------------ state

VARIABLES
  firebaseApp,    \* let firebaseApp: FirebaseApp (UNDEF until setupFirebase)
  firestoreDb,    \* let firestoreDb: Firestore
  firestoreAuth,  \* let firestoreAuth: Auth
  currentUser,    \* the auth backend's signed-in user (firestoreAuth.currentUser)
  calls,          \* the facade calls made so far, by call number
  globalChannel,  \* the backend's document channels/global
  messages,       \* the backend's message collection of the channel
  unsubscribe,    \* let unsubscribe: Unsubscribe (index.ts)
  listeners,      \* the snapshot listeners registered with the backend
  unsubThrew,     \* how many unsubscribeFromChannel calls raised a TypeError
  unsubReturned,  \* how many unsubscribeFromChannel calls returned normally
  decodeIn,       \* the argument of a decodeFireError call
  decodeOut,      \* what the call returned, per decoder
  setupAgain,     \* how the last setupFirebase call after the first ended
  channelBefore   \* the document channels/global before the facade's first call

vars ==
  << firebaseApp, firestoreDb, firestoreAuth, currentUser, calls, globalChannel,
     messages, unsubscribe, listeners, unsubThrew, unsubReturned, decodeIn, decodeOut,
     setupAgain, channelBefore >>

authVars == << firebaseApp, firestoreDb, firestoreAuth, currentUser, setupAgain >>
storeVars == << globalChannel, messages >>
ghostVars == << channelBefore >>
subVars == << unsubscribe, listeners, unsubThrew, unsubReturned >>
decodeVars == << decodeIn, decodeOut >>

\* The configuration bundles setupFirebase is called with.
Configs == { "configA", "configB" }

\* The timestamps a message's createdAt and a member's addedAt take.
Times == { 1, 2 }

\* The users of the backend.
Uids == { "u1", "u2" }
NoUser == "<null>"

\* What the backend rejects a request with.
BackendErrors ==
  { ErrorObject("auth/wrong-password", "Firebase: Error."),
    ErrorObject("permission-denied", "Firebase: Error.") }

\* The outcome of a backend request: it resolves, or rejects with an error.
Resolved == [ok |-> TRUE, error |-> NullError]
Rejected(e) == [ok |-> FALSE, error |-> e]
Outcomes == { Resolved } \cup { Rejected(e) : e \in BackendErrors }

\* new Error(strings.DEFAULT_ERROR_MESSAGE): an Error has a message and no code.
DefaultError == ErrorObject(UNDEF, DEFAULT_ERROR_MESSAGE)
\* What a continuation that throws raises.
CallbackError == ErrorObject(UNDEF, "continuation threw")

\* What onFailure has been handed: nothing yet, or a decoded error; the channel
\* functions hand it the string strings.DEFAULT_ERROR.
NoArg == HttpServiceError("<none>", "<none>")
DefaultErrorString == HttpServiceError("<string>", DEFAULT_ERROR)

\* ------------------------------------------------------------------ calls

\* A call slot not yet used.
IdleCall ==
  [ op |-> "none",        \* the facade function called
    st |-> "idle",        \* idle, threw (synchronously), open (returned normally)
    thrown |-> "none",    \* what it threw: setup (the setup error), default, none
    email |-> UNDEF, password |-> UNDEF, type |-> "none", uid |-> NoUser,
    reqs |-> {},          \* its backend requests not yet settled
    okd |-> {},           \* its backend requests that resolved
    joined |-> "none",    \* the Promise.all of setCredentials: none, pending, settled
    issued |-> 0,         \* backend requests issued
    writes |-> 0,         \* of which writes to channels/global
    wval |-> 0,           \* addedAt of the membership entry its write carries
    nS |-> 0, nF |-> 0,   \* invocations of onSuccess, of onFailure
    fArg |-> NoArg,       \* what onFailure was last handed
    fFirst |-> NullError, \* the error of the first rejected request
    nLogin |-> 0, nLogout |-> 0,  \* invocations of onLogin, onLogout (observeUser)
    seen |-> "<never>",   \* the user last delivered to the observer
    rejoin |-> FALSE,     \* an earlier join of the same user had succeeded by then
    unhandled |-> FALSE ] \* a rejection no reaction handled

\* The lowest unused call number, 0 when all are used.
NextCall ==
  IF \E i \in DOMAIN calls : calls[i].st = "idle"
  THEN CHOOSE i \in DOMAIN calls :
         calls[i].st = "idle" /\ \A j \in 1..(i-1) : calls[j].st # "idle"
  ELSE 0

\* function isFirebaseSetup()
isFirebaseSetup ==
  firebaseApp # UNDEF /\ firestoreDb # UNDEF /\ firestoreAuth # UNDEF

\* The call record of a function that threw before issuing anything.
Throws(op, what) == [IdleCall EXCEPT !.op = op, !.st = "threw", !.thrown = what]

\* The record of call c when it throws after its arguments were read.
ThrowsFrom(c, what) == [c EXCEPT !.st = "threw", !.thrown = what]

\* if (!isFirebaseSetup()) throwFirebaseSetupError(), then the rest of the body.
throwFirebaseSetupError_dropped(op, body) == body
throwFirebaseSetupError(op, body) ==
  IF ~isFirebaseSetup THEN Throws(op, "setup") ELSE body

\* The call record after issuing the backend requests rs.
Issue(c, rs) ==
  [c EXCEPT !.st = "open", !.reqs = @ \cup rs, !.issued = @ + Cardinality(rs)]

\* onSuccess(...) and onFailure(...) as invoked by the facade.
OnSuccess(c) == [c EXCEPT !.nS = @ + 1]
OnFailure(c, arg) == [c EXCEPT !.nF = @ + 1, !.fArg = arg]

\* Request r of call c settled.
Settled(c, r, o) ==
  [c EXCEPT !.reqs = @ \ {r},
            !.okd = IF o.ok THEN @ \cup {r} ELSE @,
            !.fFirst = IF ~o.ok /\ @ = NullError THEN o.error ELSE @]

\* promise.then(onSuccess).catch((error) => onFailure(decodeFireError(error))):
\* the catch also receives what onSuccess throws (sThrows: this invocation of
\* the caller's onSuccess throws).
ThenCatch(c, o, sThrows) ==
  IF o.ok
  THEN IF sThrows
       THEN OnFailure(OnSuccess(c), decodeFireError(CallbackError))
       ELSE OnSuccess(c)
  ELSE OnFailure(c, decodeFireError(o.error))

\* The same chain in index.ts, whose catch hands onFailure strings.DEFAULT_ERROR.
ThenCatchDefault(c, o, sThrows) ==
  IF o.ok
  THEN IF sThrows THEN OnFailure(OnSuccess(c), DefaultErrorString) ELSE OnSuccess(c)
  ELSE OnFailure(c, DefaultErrorString)

\* The signed-in user after backend request r settled with outcome o.
AuthAfter(r, o) ==
  IF ~o.ok THEN currentUser
  ELSE IF r \in { "signInWithPopup", "signInWithEmailAndPassword",
                  "signInAnonymously", "createUserWithEmailAndPassword" } THEN "u1"
  ELSE IF r \in { "signOut", "deleteUser" } THEN NoUser
  ELSE currentUser

\* A call is finished when it returned normally and nothing it issued is pending.
Finished(c) == c.st = "open" /\ c.reqs = {} /\ c.op # "observeUser"

\* ------------------------------------------------------------------ auth facade

\* A setupFirebase that builds a fresh handle set from whatever config it is given.
initializeApp_fresh(config) == config

\* initializeApp(config) of the SDK: the default app is created once; a later
\* call with the same options returns it, one with other options throws.
initializeApp(config) ==
  IF firebaseApp = UNDEF \/ firebaseApp = config THEN config ELSE "<throws>"

\* export function setupFirebase(config): when initializeApp throws, the call
\* ends before any of the three assignments.
setupFirebase(config) ==
  /\ IF initializeApp(config) = "<throws>"
     THEN /\ UNCHANGED << firebaseApp, firestoreDb, firestoreAuth >>
          /\ setupAgain' = "threw"
     ELSE /\ firebaseApp' = initializeApp(config)
          /\ firestoreDb' = firebaseApp'       \* getFirestore(firebaseApp)
          /\ firestoreAuth' = firebaseApp'     \* getAuth(firebaseApp)
          /\ setupAgain' = IF firebaseApp = UNDEF THEN "none" ELSE "returned"
  /\ UNCHANGED << currentUser, calls, storeVars, subVars, decodeVars, ghostVars >>

\* A call's synchronous part: slot i takes the record c.
Call(i, c) ==
  /\ i = NextCall
  /\ calls' = [calls EXCEPT ![i] = c]
  /\ UNCHANGED << authVars, storeVars, subVars, decodeVars, ghostVars >>

\* The record of a fresh call of op.
Fresh(op) == [IdleCall EXCEPT !.op = op]

\* A backend request r of call i settles with outcome o and leaves the record c.
Settle(i, op, r, o, c) ==
  /\ calls[i].op = op
  /\ r \in calls[i].reqs
  /\ calls' = [calls EXCEPT ![i] = c]
  /\ currentUser' = AuthAfter(r, o)
  /\ UNCHANGED << firebaseApp, firestoreDb, firestoreAuth, setupAgain, storeVars,
                  subVars, decodeVars, ghostVars >>

\* export function loginWithGoogle({ onSuccess, onFailure })
loginWithGoogle(i) ==
  Call(i, throwFirebaseSetupError("loginWithGoogle",
            Issue(Fresh("loginWithGoogle"), {"signInWithPopup"})))

\* signInWithPopup(...).then(...).catch(...): credentials is what
\* GoogleAuthProvider.credentialFromResult(result) returned (FALSE: null).
loginWithGoogle_settled(i, o, credentials, sThrows) ==
  LET c == Settled(calls[i], "signInWithPopup", o)
  IN Settle(i, "loginWithGoogle", "signInWithPopup", o,
       IF o.ok /\ ~credentials
       THEN OnFailure(c, decodeFireError(DefaultError))
       ELSE ThenCatch(c, o, sThrows))

\* export function loginWithEmail({ email, password, onSuccess, onFailure })
loginWithEmail(i) ==
  Call(i, throwFirebaseSetupError("loginWithEmail",
            Issue(Fresh("loginWithEmail"), {"signInWithEmailAndPassword"})))

loginWithEmail_settled(i, o, sThrows) ==
  Settle(i, "loginWithEmail", "signInWithEmailAndPassword", o,
         ThenCatch(Settled(calls[i], "signInWithEmailAndPassword", o), o, sThrows))

\* export function loginAnonymously({ onSuccess, onFailure })
loginAnonymously(i) ==
  Call(i, throwFirebaseSetupError("loginAnonymously",
            Issue(Fresh("loginAnonymously"), {"signInAnonymously"})))

loginAnonymously_settled(i, o, sThrows) ==
  Settle(i, "loginAnonymously", "signInAnonymously", o,
         ThenCatch(Settled(calls[i], "signInAnonymously", o), o, sThrows))

\* export function logout({ onSuccess, onFailure })
logout(i) ==
  Call(i, throwFirebaseSetupError("logout",
            Issue(Fresh("logout"), {"signOut"})))

logout_settled(i, o, sThrows) ==
  Settle(i, "logout", "signOut", o, ThenCatch(Settled(calls[i], "signOut", o), o, sThrows))

\* export function registerWithEmail({ email, password, onSuccess, onFailure })
registerWithEmail(i) ==
  Call(i, throwFirebaseSetupError("registerWithEmail",
            Issue(Fresh("registerWithEmail"),
                  {"createUserWithEmailAndPassword"})))

registerWithEmail_settled(i, o, sThrows) ==
  Settle(i, "registerWithEmail", "createUserWithEmailAndPassword", o,
         ThenCatch(Settled(calls[i], "createUserWithEmailAndPassword", o), o, sThrows))

\* The body of sendMail after the setup check.
sendMail_body(c) ==
  IF c.type = "verification" /\ currentUser # NoUser
  THEN Issue(c, {"sendEmailVerification"})
  ELSE IF c.type = "password-reset"
  THEN Issue(c, {"sendPasswordResetEmail"})
  ELSE [c EXCEPT !.st = "open"]

\* export function sendMail({ email, onSuccess, onFailure, type = "verification" })
sendMail(i, type) ==
  Call(i, throwFirebaseSetupError("sendMail",
            sendMail_body([Fresh("sendMail") EXCEPT !.type = type])))

sendMail_settled(i, r, o, sThrows) ==
  /\ r \in {"sendEmailVerification", "sendPasswordResetEmail"}
  /\ Settle(i, "sendMail", r, o, ThenCatch(Settled(calls[i], r, o), o, sThrows))

\* A body that does not look for the signed-in user before updating.
setCredentials_body_noUserCheck(c) ==
  IF Falsy(c.email) /\ Falsy(c.password)
  THEN ThrowsFrom(c, "default")
  ELSE IF ~Falsy(c.email) /\ ~Falsy(c.password)
  THEN Issue([c EXCEPT !.joined = "pending"], {"updateEmail", "updatePassword"})
  ELSE Issue(c, (IF ~Falsy(c.email) THEN {"updateEmail"} ELSE {})
                \cup (IF ~Falsy(c.password) THEN {"updatePassword"} ELSE {}))

\* The body of setCredentials after the setup check.
setCredentials_body(c) ==
  IF Falsy(c.email) /\ Falsy(c.password)      \* if (!email && !password) throw
  THEN ThrowsFrom(c, "default")
  ELSE IF currentUser = NoUser                \* if (!user) throw
  THEN ThrowsFrom(c, "default")
  ELSE IF ~Falsy(c.email) /\ ~Falsy(c.password)
  THEN Issue([c EXCEPT !.joined = "pending"], {"updateEmail", "updatePassword"})
  ELSE Issue(c, (IF ~Falsy(c.email) THEN {"updateEmail"} ELSE {})
                \cup (IF ~Falsy(c.password) THEN {"updatePassword"} ELSE {}))

\* export function setCredentials({ email, password, onSuccess, onFailure })
setCredentials(i, email, password) ==
  Call(i, throwFirebaseSetupError("setCredentials",
            setCredentials_body([Fresh("setCredentials")
                                   EXCEPT !.email = email, !.password = password])))

\* A join that settles only when every request has, reporting the last rejection.
PromiseAll_allSettled(c, o, sThrows) ==
  IF c.reqs # {} THEN c
  ELSE IF c.okd = {"updateEmail", "updatePassword"}
  THEN [ThenCatch(c, Resolved, sThrows) EXCEPT !.joined = "settled"]
  ELSE IF o.ok THEN [ThenCatch(c, Rejected(c.fFirst), sThrows) EXCEPT !.joined = "settled"]
  ELSE [ThenCatch(c, o, sThrows) EXCEPT !.joined = "settled"]

\* Promise.all([emailPromise, passwordPromise]).then(onSuccess).catch(onCatch),
\* c being the record after one of the two settled with o: the join rejects with
\* the first rejection and resolves once both have resolved.
PromiseAll(c, o, sThrows) ==
  IF c.joined # "pending" THEN c
  ELSE IF ~o.ok THEN [ThenCatch(c, o, sThrows) EXCEPT !.joined = "settled"]
  ELSE IF c.reqs = {} THEN [ThenCatch(c, Resolved, sThrows) EXCEPT !.joined = "settled"]
  ELSE c

setCredentials_settled(i, r, o, sThrows) ==
  /\ r \in {"updateEmail", "updatePassword"}
  /\ Settle(i, "setCredentials", r, o,
       IF calls[i].joined = "none"
       THEN ThenCatch(Settled(calls[i], r, o), o, sThrows)
       ELSE PromiseAll(Settled(calls[i], r, o), o, sThrows))

\* export function deleteUser({ onSuccess, onFailure })
deleteUser(i) ==
  Call(i, throwFirebaseSetupError("deleteUser",
            IF currentUser = NoUser
            THEN Throws("deleteUser", "default")
            ELSE Issue(Fresh("deleteUser"), {"deleteUser"})))

deleteUser_settled(i, o, sThrows) ==
  Settle(i, "deleteUser", "deleteUser", o,
         ThenCatch(Settled(calls[i], "deleteUser", o), o, sThrows))

\* export function observeUser({ onLogin, onLogout })
observeUser(i) ==
  Call(i, throwFirebaseSetupError("observeUser",
            Issue(Fresh("observeUser"), {"onAuthStateChanged"})))

\* The callback observeUser registered, run by the SDK with the current user.
observeUser_callback(i) ==
  /\ calls[i].op = "observeUser" /\ calls[i].st = "open"
  /\ calls[i].seen # currentUser
  /\ calls' = [calls EXCEPT ![i] =
       IF currentUser # NoUser
       THEN [@ EXCEPT !.nLogin = @ + 1, !.seen = currentUser]
       ELSE [@ EXCEPT !.nLogout = @ + 1, !.seen = currentUser]]
  /\ UNCHANGED << authVars, storeVars, subVars, decodeVars, ghostVars >>

\* ------------------------------------------------------------------ channel facade

\* The membership entry of a user who is no member (users[uid] is undefined).
NoEntry == 0

\* isChannel(doc) of ./utils: the type guard of a channel document.
isChannel(doc) == doc.wellFormed

\* isMessage(doc) of ./utils: the type guard of a message document.
isMessage(doc) == doc.wellFormed

\* parseChannelsFromDocs({docs, onSuccess, onFailure}) of ./utils, and
\* parseMessagesFromDocs alike: a document failing the shape check fails the
\* whole list, otherwise the parsed list goes to onSuccess. ok is whether
\* every document passed.
parseFromDocs(c, ok) ==
  IF ok THEN OnSuccess(c) ELSE OnFailure(c, DefaultErrorString)

\* getDocs(...).then((docs) => parse...FromDocs({docs, onSuccess, onFailure}))
\*   .catch((error) => onFailure(strings.DEFAULT_ERROR))
ThenParseCatch(c, o, ok, sThrows) ==
  IF ~o.ok THEN OnFailure(c, DefaultErrorString)
  ELSE IF ok /\ sThrows THEN OnFailure(parseFromDocs(c, ok), DefaultErrorString)
  ELSE parseFromDocs(c, ok)

\* A settlement of a request of a channel function: the store becomes g, m.
SettleStore(i, op, r, c, g, m) ==
  /\ calls[i].op = op
  /\ r \in calls[i].reqs
  /\ calls' = [calls EXCEPT ![i] = c]
  /\ globalChannel' = g
  /\ messages' = m
  /\ UNCHANGED << authVars, subVars, decodeVars, ghostVars >>

\* Whether a call of addUserToGlobalChannel for uid has already ended in onSuccess.
Joined(uid) ==
  \E j \in DOMAIN calls :
    /\ calls[j].op = "addUserToGlobalChannel" /\ calls[j].uid = uid
    /\ Finished(calls[j]) /\ calls[j].nS > 0

\* export function addUserToGlobalChannel({ user, onSuccess, onFailure })
addUserToGlobalChannel(i, uid) ==
  Call(i, Issue([Fresh("addUserToGlobalChannel")
                   EXCEPT !.uid = uid, !.rejoin = Joined(uid)],
                {"getDoc"}))

\* A reaction to the fetched document that writes the entry whether or not the
\* user is a member already.
getDoc_then_alwaysWrites(c, o, snapshot, t, sThrows) ==
  IF ~o.ok THEN [c EXCEPT !.unhandled = TRUE]
  ELSE IF isChannel(snapshot)
  THEN [Issue(c, {"updateDoc"}) EXCEPT !.writes = @ + 1, !.wval = t]
  ELSE OnFailure(c, DefaultErrorString)

\* getDoc(globalChannelDoc).then((docSnapshot) => { ... }), which has no catch:
\* c is the record after getDoc settled with o, snapshot the document it
\* resolved with, t the join timestamp getChannelUserFromUser(user) would carry.
getDoc_then(c, o, snapshot, t, sThrows) ==
  IF ~o.ok THEN [c EXCEPT !.unhandled = TRUE]
  ELSE IF isChannel(snapshot)
  THEN IF snapshot.users[c.uid] # NoEntry
       THEN [OnSuccess(c) EXCEPT !.unhandled = sThrows]
       ELSE [Issue(c, {"updateDoc"}) EXCEPT !.writes = @ + 1, !.wval = t]
  ELSE OnFailure(c, DefaultErrorString)

addUserToGlobalChannel_fetched(i, o, t, sThrows) ==
  SettleStore(i, "addUserToGlobalChannel", "getDoc",
              getDoc_then(Settled(calls[i], "getDoc", o), o, globalChannel, t, sThrows),
              globalChannel, messages)

\* An update that sets the whole users map, {users: {[uid]: entry}}.
updateDoc_wholeMap(doc, uid, entry) ==
  [doc EXCEPT !.users = [u \in Uids |-> IF u = uid THEN entry ELSE NoEntry]]

\* The document after updateDoc(globalChannelDoc, {[`users.${uid}`]: entry}).
updateDoc(doc, uid, entry) == [doc EXCEPT !.users[uid] = entry]

\* updateDoc(...).then(onSuccess).catch(() => onFailure(strings.DEFAULT_ERROR))
addUserToGlobalChannel_written(i, o, sThrows) ==
  SettleStore(i, "addUserToGlobalChannel", "updateDoc",
              ThenCatchDefault(Settled(calls[i], "updateDoc", o), o, sThrows),
              IF o.ok THEN updateDoc(globalChannel, calls[i].uid, calls[i].wval)
                      ELSE globalChannel,
              messages)

\* export function getUserChannels({ user, onSuccess, onFailure })
getUserChannels(i, uid) ==
  Call(i, Issue([Fresh("getUserChannels") EXCEPT !.uid = uid], {"getDocs"}))

\* The channels the query where(`users.${uid}`, '!=', '') selects.
UserChannels(uid) ==
  IF globalChannel.users[uid] # NoEntry THEN {globalChannel} ELSE {}

getUserChannels_settled(i, o, sThrows) ==
  SettleStore(i, "getUserChannels", "getDocs",
              ThenParseCatch(Settled(calls[i], "getDocs", o), o,
                             \A d \in UserChannels(calls[i].uid) : isChannel(d), sThrows),
              globalChannel, messages)

\* export function getChannelMessages({ channel, onSuccess, onFailure })
getChannelMessages(i) ==
  Call(i, Issue(Fresh("getChannelMessages"), {"getDocs"}))

getChannelMessages_settled(i, o, sThrows) ==
  SettleStore(i, "getChannelMessages", "getDocs",
              ThenParseCatch(Settled(calls[i], "getDocs", o), o,
                             \A d \in messages : isMessage(d), sThrows),
              globalChannel, messages)

\* export function sendMessageToChannel({ channel, message, onSuccess, onFailure })
sendMessageToChannel(i, createdAt, wellFormed) ==
  Call(i, Issue([Fresh("sendMessageToChannel")
                   EXCEPT !.wval = createdAt,
                          !.type = IF wellFormed THEN "message" ELSE "malformed"],
                {"addDoc"}))

\* The collection after addDoc(messagesCollection, message).
addDoc(coll, createdAt, wellFormed) ==
  coll \cup { [id |-> Cardinality(coll) + 1, createdAt |-> createdAt,
               wellFormed |-> wellFormed] }

\* addDoc(...).then(onSuccess).catch(() => onFailure(strings.DEFAULT_ERROR))
sendMessageToChannel_settled(i, o, sThrows) ==
  SettleStore(i, "sendMessageToChannel", "addDoc",
              ThenCatchDefault(Settled(calls[i], "addDoc", o), o, sThrows),
              globalChannel,
              IF o.ok THEN addDoc(messages, calls[i].wval, calls[i].type = "message")
                      ELSE messages)

\* ------------------------------------------------------------------ subscription

\* let unsubscribe: Unsubscribe, before any assignment.
NoListener == 0

\* A listener slot not yet used.
IdleListener ==
  [ st |-> "none",        \* none, threw (subscribe threw), active, cancelled
    addedAt |-> 0,        \* channel.users[user.uid].addedAt of the subscriber
    pending |-> FALSE,    \* the backend has a snapshot to deliver
    last |-> "none",      \* the continuation the last snapshot reached
    got |-> << >>,        \* the messages onSuccess was last handed
    sinceUnsub |-> FALSE ]\* a snapshot came after the last unsubscribeFromChannel

\* The lowest unused listener number, 0 when all are used.
NextListener ==
  IF \E k \in 1..MaxSubs : listeners[k].st = "none"
  THEN CHOOSE k \in 1..MaxSubs :
         listeners[k].st = "none" /\ \A j \in 1..(k-1) : listeners[j].st # "none"
  ELSE 0

\* m comes before n in orderBy('createdAt') (ties by document id).
Before(m, n) ==
  m.createdAt < n.createdAt \/ (m.createdAt = n.createdAt /\ m.id <= n.id)

RECURSIVE OrderBy(_)
OrderBy(S) ==
  IF S = {} THEN << >>
  ELSE LET m == CHOOSE x \in S : \A y \in S : Before(x, y)
       IN << m >> \o OrderBy(S \ {m})

\* A query that yields only the newest document.
messagesQuery_delta(coll, addedAt) ==
  LET all == OrderBy({ m \in coll : m.createdAt >= addedAt })
  IN IF all = << >> THEN all ELSE << all[Len(all)] >>

\* query(messagesCollection, orderBy('createdAt'),
\*       where('createdAt', '>=', channel.users[user.uid].addedAt))
messagesQuery(coll, addedAt) ==
  OrderBy({ m \in coll : m.createdAt >= addedAt })

\* unsubscribe = onSnapshot(...): the slot holds the new listener's capability.
subscribeSlot(k) == k

\* export function subscribeUserToChannel({ user, channel, onSuccess, onFailure }):
\* entry is channel.users[user.uid] of the channel object the caller passes.
subscribeUserToChannel(k, entry) ==
  /\ k = NextListener
  /\ IF entry = NoEntry
     THEN \* reading .addedAt of undefined throws a TypeError
          /\ listeners' = [listeners EXCEPT ![k] = [IdleListener EXCEPT !.st = "threw"]]
          /\ UNCHANGED unsubscribe
     ELSE /\ listeners' = [listeners EXCEPT ![k] =
                 [IdleListener EXCEPT !.st = "active", !.addedAt = entry,
                                      !.pending = TRUE]]
          /\ unsubscribe' = subscribeSlot(k)
  /\ UNCHANGED << authVars, calls, storeVars, unsubThrew, unsubReturned, decodeVars, ghostVars >>

\* The onSnapshot callback of listener k, run by the SDK with the query's
\* current documents: parseMessagesFromDocs({docs, onSuccess, onFailure}).
onSnapshot_callback(k) ==
  /\ listeners[k].st = "active"
  /\ listeners[k].pending
  /\ LET docs == messagesQuery(messages, listeners[k].addedAt)
     IN listeners' = [listeners EXCEPT ![k] =
          IF \A n \in 1..Len(docs) : isMessage(docs[n])
          THEN [@ EXCEPT !.pending = FALSE, !.last = "onSuccess", !.got = docs,
                         !.sinceUnsub = TRUE]
          ELSE [@ EXCEPT !.pending = FALSE, !.last = "onFailure",
                         !.sinceUnsub = TRUE]]
  /\ UNCHANGED << authVars, calls, storeVars, unsubscribe, unsubThrew,
                  unsubReturned, decodeVars, ghostVars >>

\* An unsubscribe that detaches every listener.
unsubscribeTarget_all(j) == TRUE

\* unsubscribe(): the listener the retained capability detaches.
unsubscribeTarget(j) == j = unsubscribe

\* A guarded invocation, unsubscribe?.(), which returns when the slot is unset.
unsubscribeCall_guarded(slot) == "returns"

\* unsubscribe(): calling the slot while it is undefined throws a TypeError.
unsubscribeCall(slot) == IF slot = NoListener THEN "TypeError" ELSE "returns"

\* export function unsubscribeFromChannel()
unsubscribeFromChannel ==
  /\ unsubThrew + unsubReturned < MaxUnsubs
  /\ IF unsubscribeCall(unsubscribe) = "TypeError"
     THEN /\ unsubThrew' = unsubThrew + 1
          /\ UNCHANGED << unsubReturned, listeners >>
     ELSE /\ unsubReturned' = unsubReturned + 1
          /\ listeners' = [j \in 1..MaxSubs |->
               IF unsubscribeTarget(j) /\ listeners[j].st = "active"
               THEN [listeners[j] EXCEPT !.st = "cancelled", !.pending = FALSE,
                                         !.sinceUnsub = FALSE]
               ELSE [listeners[j] EXCEPT !.sinceUnsub = FALSE]]
          /\ UNCHANGED unsubThrew
  /\ UNCHANGED << authVars, calls, storeVars, unsubscribe, decodeVars, ghostVars >>

\* Another client adds a message to the channel: the backend marks a snapshot
\* for every attached listener whose query the message matches.
Backend_messageAdded(createdAt, wellFormed) ==
  /\ Cardinality(messages) < MaxMsgs
  /\ messages' = addDoc(messages, createdAt, wellFormed)
  /\ listeners' = [j \in 1..MaxSubs |->
       IF listeners[j].st = "active" /\ createdAt >= listeners[j].addedAt
       THEN [listeners[j] EXCEPT !.pending = TRUE]
       ELSE listeners[j]]
  /\ UNCHANGED << authVars, calls, globalChannel, unsubscribe, unsubThrew,
                  unsubReturned, decodeVars, ghostVars >>

\* ------------------------------------------------------------------ specifications

\* The channels/global documents a behaviour may start from.
ChannelDocs ==
  { [wellFormed |-> w, users |-> u] :
      w \in BOOLEAN, u \in [Uids -> {NoEntry, 1}] }

NoDecode == [index |-> NoArg, firebase |-> NoArg]

\* The state after the modules are loaded: the handles are unset, no call was
\* made, nothing is subscribed.
InitCommon ==
  /\ firebaseApp = UNDEF /\ firestoreDb = UNDEF /\ firestoreAuth = UNDEF
  /\ unsubscribe = NoListener
  /\ listeners = [k \in 1..MaxSubs |-> IdleListener]
  /\ unsubThrew = 0 /\ unsubReturned = 0
  /\ setupAgain = "none"

\* The facade's calls: the backend may hold a restored session; channels/global
\* is a well-formed document of which u1 is a member and u2 is not, or a
\* malformed one (SpecJoin starts from every document).
Init ==
  /\ InitCommon
  /\ calls = [i \in 1..MaxCalls |-> IdleCall]
  /\ currentUser \in {NoUser, "u1"}
  /\ globalChannel \in { d \in ChannelDocs :
                            /\ d.users["u2"] = NoEntry
                            /\ d.wellFormed <=> d.users["u1"] # NoEntry }
  /\ messages \in { {}, addDoc({}, 1, FALSE) }
  /\ decodeIn = NullError /\ decodeOut = NoDecode
  /\ channelBefore = globalChannel

Next ==
  \/ \E config \in Configs : setupFirebase(config)
  \/ \E i \in 1..MaxCalls :
       \/ loginWithGoogle(i)
       \/ loginWithEmail(i)
       \/ loginAnonymously(i)
       \/ logout(i)
       \/ registerWithEmail(i)
       \/ \E type \in {"verification", "password-reset"} : sendMail(i, type)
       \/ \E email \in {UNDEF, "", "new@mail"}, password \in {UNDEF, "secret"} :
            setCredentials(i, email, password)
       \/ deleteUser(i)
       \/ \E uid \in Uids : addUserToGlobalChannel(i, uid)
       \/ \E uid \in Uids : getUserChannels(i, uid)
       \/ getChannelMessages(i)
       \/ \E w \in BOOLEAN : sendMessageToChannel(i, 1, w)
  \/ \E i \in 1..MaxCalls : observeUser(i)
  \/ \E i \in 1..MaxCalls : observeUser_callback(i)
  \/ \E i \in 1..MaxCalls, o \in Outcomes, sThrows \in BOOLEAN :
       \/ \E credentials \in BOOLEAN : loginWithGoogle_settled(i, o, credentials, sThrows)
       \/ loginWithEmail_settled(i, o, sThrows)
       \/ loginAnonymously_settled(i, o, sThrows)
       \/ logout_settled(i, o, sThrows)
       \/ registerWithEmail_settled(i, o, sThrows)
       \/ \E r \in {"sendEmailVerification", "sendPasswordResetEmail"} :
            sendMail_settled(i, r, o, sThrows)
       \/ \E r \in {"updateEmail", "updatePassword"} : setCredentials_settled(i, r, o, sThrows)
       \/ deleteUser_settled(i, o, sThrows)
       \/ addUserToGlobalChannel_fetched(i, o, 1, sThrows)
       \/ addUserToGlobalChannel_written(i, o, sThrows)
       \/ getUserChannels_settled(i, o, sThrows)
       \/ getChannelMessages_settled(i, o, sThrows)
       \/ sendMessageToChannel_settled(i, o, sThrows)

Spec == Init /\ [][Next]_vars

\* The subscription slot: one signed-in member, the channel's messages coming
\* from other clients.
InitSub ==
  /\ InitCommon
  /\ calls = [i \in 1..MaxCalls |-> IdleCall]
  /\ currentUser = "u1"
  /\ globalChannel = [wellFormed |-> TRUE, users |-> [u \in Uids |-> 1]]
  /\ messages = {}
  /\ decodeIn = NullError /\ decodeOut = NoDecode
  /\ channelBefore = globalChannel

NextSub ==
  \/ \E k \in 1..MaxSubs, entry \in {NoEntry} \cup Times :
       subscribeUserToChannel(k, entry)
  \/ \E k \in 1..MaxSubs : onSnapshot_callback(k)
  \/ unsubscribeFromChannel
  \/ \E t \in Times, w \in BOOLEAN : Backend_messageAdded(t, w)

SpecSub == InitSub /\ [][NextSub]_vars

\* Joins of the global channel: overlapping and repeated calls of
\* addUserToGlobalChannel on any channels/global document.
InitJoin ==
  /\ InitCommon
  /\ calls = [i \in 1..MaxJoins |-> IdleCall]
  /\ currentUser = "u1"
  /\ globalChannel \in ChannelDocs
  /\ messages = {}
  /\ decodeIn = NullError /\ decodeOut = NoDecode
  /\ channelBefore = globalChannel

NextJoin ==
  \/ \E i \in 1..MaxJoins, uid \in Uids : addUserToGlobalChannel(i, uid)
  \/ \E i \in 1..MaxJoins, o \in Outcomes, t \in Times, sThrows \in BOOLEAN :
       addUserToGlobalChannel_fetched(i, o, t, sThrows)
  \/ \E i \in 1..MaxJoins, o \in Outcomes, sThrows \in BOOLEAN :
       addUserToGlobalChannel_written(i, o, sThrows)

SpecJoin == InitJoin /\ [][NextJoin]_vars

\* decodeFireError as a function: the argument is drawn from ErrorValues and
\* each decoder is applied to it.
InitDecode ==
  /\ InitCommon
  /\ calls = [i \in 1..MaxCalls |-> IdleCall]
  /\ currentUser = NoUser
  /\ globalChannel = [wellFormed |-> TRUE, users |-> [u \in Uids |-> NoEntry]]
  /\ messages = {}
  /\ decodeIn \in ErrorValues
  /\ decodeOut = NoDecode
  /\ channelBefore = globalChannel

Decode_index ==
  /\ decodeOut.index = NoArg
  /\ decodeOut' = [decodeOut EXCEPT !.index = decodeFireError(decodeIn)]
  /\ UNCHANGED << authVars, calls, storeVars, subVars, decodeIn, ghostVars >>

Decode_firebase ==
  /\ decodeOut.firebase = NoArg
  /\ decodeOut' = [decodeOut EXCEPT !.firebase = decodeFireError_firebase(decodeIn)]
  /\ UNCHANGED << authVars, calls, storeVars, subVars, decodeIn, ghostVars >>

NextDecode == Decode_index \/ Decode_firebase

SpecDecode == InitDecode /\ [][NextDecode]_vars

\* ------------------------------------------------------------------ claims

\* The functions that take an onSuccess/onFailure pair.
AuthOps ==
  { "loginWithGoogle", "loginWithEmail", "loginAnonymously", "logout",
    "registerWithEmail", "sendMail", "setCredentials", "deleteUser" }
ChannelOps ==
  { "addUserToGlobalChannel", "getUserChannels", "getChannelMessages",
    "sendMessageToChannel" }
PairOps == AuthOps \cup ChannelOps

\* C1: in a single call of a function taking onSuccess/onFailure, the two
\* continuations are invoked at most once in total, whatever the backend does.
C1_AtMostOneContinuation ==
  \A i \in DOMAIN calls :
    calls[i].op \in PairOps => calls[i].nS + calls[i].nF <= 1

\* C2: a call that passed its synchronous preconditions and whose backend
\* requests have all settled has invoked one of its two continuations.
C2_SettledCallInvokedContinuation ==
  \A i \in DOMAIN calls :
    (calls[i].op \in PairOps /\ Finished(calls[i]))
      => calls[i].nS + calls[i].nF >= 1

\* A call that threw synchronously issued nothing and invoked no continuation.
ThrewQuietly(c) ==
  c.st = "threw" =>
    /\ c.issued = 0 /\ c.reqs = {}
    /\ c.nS = 0 /\ c.nF = 0 /\ c.nLogin = 0 /\ c.nLogout = 0

C4_BothUpdatesJoin ==
  \A i \in DOMAIN calls :
    LET c == calls[i]
    IN (c.op = "setCredentials" /\ c.joined # "none") =>
         /\ c.nS <= 1
         /\ c.nS = 1 <=> (c.reqs = {} /\ c.okd = {"updateEmail", "updatePassword"})
         /\ c.fFirst # NullError =>
              /\ c.nS = 0 /\ c.nF = 1
              /\ c.fArg = decodeFireError(c.fFirst)

\* Both updates rejected, and the call is over.
C4_Witness ==
  \E i \in DOMAIN calls :
    /\ calls[i].op = "setCredentials" /\ calls[i].joined = "settled"
    /\ calls[i].reqs = {} /\ calls[i].okd = {}
    /\ calls[i].nF = 1

\* The fixed human-readable message of each listed backend code.
FixedMessage(code) ==
  CASE code = "auth/invalid-email" -> "Invalid email address."
    [] code = "auth/user-disabled" -> "This user has been disabled."
    [] code = "auth/user-not-found" -> "This user does not exist."
    [] code = "auth/wrong-password" -> "Incorrect password."
    [] code = "auth/email-already-in-use" -> "This email is already in use."
    [] code = "auth/popup-blocked" -> "Please allow popups to continue."

\* The four codes the switch of src/firebase.ts lists.
FirebaseListedCodes ==
  { "auth/invalid-email", "auth/user-disabled", "auth/user-not-found",
    "auth/wrong-password" }

\* C5 as stated: every error object whose code is one of the six listed codes
\* decodes to that code and its fixed message.
C5_EveryListedCodeDecodes ==
  (decodeOut.index # NoArg /\ decodeIn.kind = "object"
     /\ decodeIn.code \in ListedCodes)
    => decodeOut.index = HttpServiceError(decodeIn.code, FixedMessage(decodeIn.code))

\* C5 (amended): every error object with a non-empty message whose code is one
\* of the six listed codes decodes to that code and its fixed message; without
\* a message it decodes to "unknown" and the default message. The decoder of
\* src/firebase.ts does the same for the four codes its switch lists and gives
\* the other two the default message.
C5_ListedCodeWithMessageDecodes ==
  (decodeIn.kind = "object" /\ decodeIn.code \in ListedCodes) =>
    /\ decodeOut.index # NoArg =>
         decodeOut.index =
           IF Falsy(decodeIn.message)
           THEN HttpServiceError("unknown", DEFAULT_ERROR_MESSAGE)
           ELSE HttpServiceError(decodeIn.code, FixedMessage(decodeIn.code))
    /\ decodeOut.firebase # NoArg =>
         decodeOut.firebase =
           IF Falsy(decodeIn.message)
           THEN HttpServiceError("unknown", DEFAULT_ERROR_MESSAGE)
           ELSE IF decodeIn.code \in FirebaseListedCodes
           THEN HttpServiceError(decodeIn.code, FixedMessage(decodeIn.code))
           ELSE HttpServiceError(decodeIn.code, DEFAULT_ERROR_MESSAGE)

\* A listed code with a message has been decoded.
C5_Witness ==
  /\ decodeIn.kind = "object" /\ decodeIn.code = "auth/wrong-password"
  /\ ~Falsy(decodeIn.message)
  /\ decodeOut.index = HttpServiceError("auth/wrong-password", "Incorrect password.")

\* The fallback of C6 for an input outside the table.
Fallback(error) ==
  IF error.kind = "object" /\ ~Falsy(error.code)
  THEN HttpServiceError(error.code, DEFAULT_ERROR_MESSAGE)
  ELSE HttpServiceError("unknown", DEFAULT_ERROR_MESSAGE)

\* C6 as stated: an error carrying a code that is not in the table decodes to
\* that code and the default message; null, undefined and an object without a
\* code decode to "unknown" and the default message.
C6_FallbackKeepsCode ==
  (decodeOut.index # NoArg
     /\ ~(decodeIn.kind = "object" /\ decodeIn.code \in ListedCodes))
    => decodeOut.index = Fallback(decodeIn)

\* C6 (amended): decodeFireError returns for every input; an error carrying a
\* non-empty message and a non-empty code that is not in the table decodes to
\* that code and the default message; null, undefined, and an object lacking
\* its code or its message decode to "unknown" and the default message.
C6_FallbackNeedsMessage ==
  /\ decodeOut.index # NoArg =>
       /\ decodeOut.index \in
            [error : CodeValues \cup {"unknown"},
             message : {DEFAULT_ERROR_MESSAGE} \cup { FixedMessage(c) : c \in ListedCodes }]
       /\ ~(decodeIn.kind = "object" /\ decodeIn.code \in ListedCodes) =>
            decodeOut.index =
              IF decodeIn.kind = "object" /\ ~Falsy(decodeIn.code)
                 /\ ~Falsy(decodeIn.message)
              THEN HttpServiceError(decodeIn.code, DEFAULT_ERROR_MESSAGE)
              ELSE HttpServiceError("unknown", DEFAULT_ERROR_MESSAGE)
  /\ (decodeOut.firebase # NoArg
        /\ ~(decodeIn.kind = "object" /\ decodeIn.code \in ListedCodes)) =>
            decodeOut.firebase =
              IF decodeIn.kind = "object" /\ ~Falsy(decodeIn.code)
                 /\ ~Falsy(decodeIn.message)
              THEN HttpServiceError(decodeIn.code, DEFAULT_ERROR_MESSAGE)
              ELSE HttpServiceError("unknown", DEFAULT_ERROR_MESSAGE)

\* An unlisted code with a message has been decoded to the code and the default.
C6_Witness ==
  /\ decodeIn.kind = "object" /\ decodeIn.code \in UnlistedCodes
  /\ ~Falsy(decodeIn.message)
  /\ decodeOut.index = HttpServiceError(decodeIn.code, DEFAULT_ERROR_MESSAGE)

\* C7: of two addUserToGlobalChannel calls for the same user on a well-formed
\* channel without that user, the first issues one write that adds the entry
\* under the user's id and then invokes onSuccess; a call made after it has
\* succeeded finds the user among the members and invokes onSuccess without
\* issuing a write. A call that fetched a channel and issued no write found
\* the user a member.
C7_SecondJoinIsNoOp ==
  \A i \in DOMAIN calls :
    LET c == calls[i]
    IN c.op = "addUserToGlobalChannel" =>
         /\ c.writes <= 1
         /\ (c.writes = 1 /\ "updateDoc" \in c.okd) =>
              (c.nS = 1 /\ c.wval # NoEntry
                 /\ globalChannel.users[c.uid] # NoEntry)
         /\ ("getDoc" \in c.okd /\ isChannel(globalChannel) /\ c.writes = 0) =>
              (c.nS = 1 /\ c.nF = 0 /\ globalChannel.users[c.uid] # NoEntry)
         /\ (c.rejoin /\ "getDoc" \in c.okd) =>
              (c.writes = 0 /\ c.issued = 1 /\ c.nS = 1 /\ c.nF = 0)

\* The first call wrote and succeeded; the second, made after it, succeeded
\* without a write.
C7_Witness ==
  \E i, j \in DOMAIN calls :
    /\ i # j /\ calls[i].uid = calls[j].uid
    /\ calls[i].op = "addUserToGlobalChannel" /\ calls[j].op = "addUserToGlobalChannel"
    /\ Finished(calls[i]) /\ calls[i].writes = 1 /\ calls[i].nS = 1 /\ calls[i].nF = 0
    /\ calls[j].rejoin /\ Finished(calls[j]) /\ calls[j].writes = 0 /\ calls[j].nS = 1

\* seq is all of msgs created at or after addedAt, each once, by ascending createdAt.
IsFullSet(seq, msgs, addedAt) ==
  /\ { seq[n] : n \in 1..Len(seq) } = { m \in msgs : m.createdAt >= addedAt }
  /\ Len(seq) = Cardinality({ m \in msgs : m.createdAt >= addedAt })
  /\ \A a, b \in 1..Len(seq) : a < b => seq[a].createdAt <= seq[b].createdAt

\* The step delivers a snapshot to listener k.
Delivers(k) ==
  /\ listeners[k].st = "active" /\ listeners[k].pending
  /\ listeners'[k].st = "active" /\ ~listeners'[k].pending

\* The step is a call of unsubscribeFromChannel.
UnsubscribeStep == unsubThrew' + unsubReturned' = unsubThrew + unsubReturned + 1

\* C8: every snapshot delivered to a subscribed listener whose documents all
\* parse hands onSuccess the full current set of the channel's messages created
\* at or after the subscriber's addedAt, by ascending createdAt (otherwise it
\* reaches onFailure); a listener stops being attached only in a step of
\* unsubscribeFromChannel that holds its capability.
C8_FullSetOnEveryNotification ==
  [][\A k \in 1..MaxSubs :
       /\ Delivers(k) =>
            IF \A m \in messages' : m.createdAt >= listeners[k].addedAt => isMessage(m)
            THEN /\ listeners'[k].last = "onSuccess"
                 /\ IsFullSet(listeners'[k].got, messages', listeners[k].addedAt)
            ELSE listeners'[k].last = "onFailure"
       /\ (listeners[k].st = "active" /\ listeners'[k].st # "active") =>
            (UnsubscribeStep /\ unsubscribe = k)]_vars

\* A listener was handed, on one notification, a set of two messages.
C8_Witness ==
  \E k \in 1..MaxSubs :
    /\ listeners[k].st = "active" /\ ~listeners[k].pending
    /\ listeners[k].last = "onSuccess" /\ Len(listeners[k].got) = 2

\* The listener registered last, NoListener when there is none.
MostRecent ==
  LET reg == { k \in 1..MaxSubs : listeners[k].st \in {"active", "cancelled"} }
  IN IF reg = {} THEN NoListener ELSE CHOOSE k \in reg : \A j \in reg : j <= k

\* C9: the slot holds the capability of the most recent subscription only; a
\* further subscribeUserToChannel cancels no listener, unsubscribeFromChannel
\* cancels none but the most recent, and a listener that another subscription
\* superseded stays attached through every later step.
C9_OnlyLastSubscriptionRetained ==
  [][/\ unsubscribe = MostRecent
     /\ unsubscribe' = MostRecent'
     /\ \A k \in 1..MaxSubs :
          /\ (listeners[k].st = "active" /\ listeners'[k].st # "active") =>
               (k = MostRecent /\ UnsubscribeStep)
          /\ (listeners[k].st = "active" /\ k # MostRecent) =>
               listeners'[k].st = "active"]_vars

\* The first listener, superseded by a second that was then unsubscribed, has
\* been handed a message after two unsubscribeFromChannel calls.
C9_Witness ==
  /\ listeners[1].st = "active" /\ listeners[2].st = "cancelled"
  /\ unsubReturned >= 2
  /\ listeners[1].sinceUnsub /\ listeners[1].last = "onSuccess"
  /\ listeners[1].got # << >>

\* No subscription is active: none was made, or the last one was unsubscribed.
NoActiveSubscription ==
  unsubscribe = NoListener \/ listeners[unsubscribe].st # "active"

\* C10 as stated: a call of unsubscribeFromChannel while no subscription is
\* active raises an error.
C10_UnsubscribeWithoutSubscriptionThrows ==
  [][(UnsubscribeStep /\ NoActiveSubscription) => unsubThrew' = unsubThrew + 1]_vars

\* C10 (amended): a call of unsubscribeFromChannel while no subscription has
\* registered a listener raises a TypeError and changes nothing; once one has,
\* the call returns normally, and when the last subscription was already
\* unsubscribed it returns without detaching anything.
C10_UnsubscribeThrowsOnlyWhenUnset ==
  [][UnsubscribeStep =>
       IF unsubscribe = NoListener
       THEN unsubThrew' = unsubThrew + 1 /\ UNCHANGED << unsubReturned, listeners >>
       ELSE /\ unsubReturned' = unsubReturned + 1 /\ UNCHANGED unsubThrew
            /\ NoActiveSubscription =>
                 \A k \in 1..MaxSubs : listeners'[k].st = listeners[k].st]_vars

\* unsubscribeFromChannel was called before any subscription, and threw.
C10_Witness == unsubThrew >= 1 /\ unsubscribe = NoListener

SessionOps == { "loginWithGoogle", "loginWithEmail", "loginAnonymously", "logout" }

\* C12: the step in which a login operation or logout invokes onFailure leaves
\* the backend's signed-in user as it was, the call has not invoked onSuccess,
\* and it has issued its one backend call and no other.
C12_FailureLeavesSessionUnchanged ==
  [][\A i \in DOMAIN calls :
       (calls[i].op \in SessionOps /\ calls'[i].nF > calls[i].nF) =>
         /\ currentUser' = currentUser
         /\ calls'[i].nS = 0
         /\ calls'[i].issued = 1 /\ calls'[i].reqs = {}]_vars

\* The number of backend updates setCredentials issues for these arguments.
UpdatesFor(email, password) ==
  (IF Falsy(email) THEN 0 ELSE 1) + (IF Falsy(password) THEN 0 ELSE 1)

\* C13: setCredentials called after setup with neither an email nor a password,
\* or with no user signed in, throws synchronously, issues no backend call and
\* never invokes a continuation; otherwise it returns having issued one update
\* per credential given, one or two, and issues no other.
C13_SetCredentialsPreconditions ==
  [][\A i \in DOMAIN calls :
       /\ (calls[i].st = "idle" /\ calls'[i].op = "setCredentials" /\ isFirebaseSetup) =>
            IF (Falsy(calls'[i].email) /\ Falsy(calls'[i].password))
               \/ currentUser = NoUser
            THEN calls'[i].st = "threw" /\ calls'[i].thrown = "default"
            ELSE /\ calls'[i].st = "open"
                 /\ calls'[i].reqs =
                      (IF Falsy(calls'[i].email) THEN {} ELSE {"updateEmail"})
                      \cup (IF Falsy(calls'[i].password) THEN {} ELSE {"updatePassword"})
       /\ (calls'[i].op = "setCredentials" /\ calls'[i].st = "threw") =>
            (calls'[i].issued = 0 /\ calls'[i].reqs = {}
               /\ calls'[i].nS = 0 /\ calls'[i].nF = 0)
       /\ (calls'[i].op = "setCredentials" /\ calls'[i].st = "open") =>
            /\ calls'[i].issued = UpdatesFor(calls'[i].email, calls'[i].password)
            /\ calls'[i].issued \in {1, 2}]_vars

\* setCredentials was given an email while no user was signed in, and threw.
C13_Witness ==
  \E i \in DOMAIN calls :
    /\ calls[i].op = "setCredentials" /\ calls[i].st = "threw"
    /\ calls[i].thrown = "default" /\ ~Falsy(calls[i].email)
    /\ calls[i].issued = 0

\* The calls of addUserToGlobalChannel made so far.
Joins == { i \in DOMAIN calls : calls[i].op = "addUserToGlobalChannel" }

\* C14: on a well-formed global channel, whatever the interleaving of the
\* addUserToGlobalChannel calls, every membership entry that was there before
\* the calls is still there with its value, and once every backend call the
\* calls issued has succeeded every calling user's id is a member key.
C14_JoinsKeepOtherMembers ==
  /\ \A u \in Uids :
       channelBefore.users[u] # NoEntry =>
         globalChannel.users[u] = channelBefore.users[u]
  /\ (isChannel(channelBefore)
        /\ \A i \in Joins : Finished(calls[i]) /\ calls[i].fFirst = NullError) =>
       \A i \in Joins : globalChannel.users[calls[i].uid] # NoEntry

\* Two users joined with overlapping calls: both wrote, and both are members.
C14_Witness ==
  \E i, j \in Joins :
    /\ calls[i].uid # calls[j].uid
    /\ Finished(calls[i]) /\ Finished(calls[j])
    /\ calls[i].writes = 1 /\ calls[j].writes = 1
    /\ calls[i].fFirst = NullError /\ calls[j].fFirst = NullError
    /\ globalChannel.users[calls[i].uid] # NoEntry
    /\ globalChannel.users[calls[j].uid] # NoEntry

====
